---- MODULE Spec2Model ----
(***************************************************************************)
(* A model of src/editor.js: the CodeEditor controller, its per-language   *)
(* code buffers, the text engine (CodeFlask) it drives, its change         *)
(* listeners and its XML persistence.                                      *)
(*                                                                         *)
(* JavaScript strings that are taken apart or put together character by    *)
(* character (buffer texts, XML) are sequences of one-character strings.   *)
(* Language identifiers, operation names and file names are TLA+ strings.  *)
(***************************************************************************)
EXTENDS Integers, Sequences, FiniteSets, TLC

VARIABLES
  language,    \* this.language
  code,        \* this.code: a function from the keys present to their text
  flask,       \* the CodeFlask engine: highlight language, textarea, callback
  listeners_,  \* this.listeners_
  pushButtonDisabled, \* whether the push button carries the class disabled-button
  op,          \* the name of the last operation
  arg,         \* the inputs of the last operation that a later check needs
  thrown,      \* whether the last operation ended by a thrown TypeError
  ret,         \* the value the last operation returned
  uploads,     \* the texts the last operation passed to Kalebr.Console.upload
  saved,       \* the file names the last operation passed to saveAs
  calls        \* the listener invocations of the last operation, in order

vars == <<language, code, flask, listeners_, pushButtonDisabled, op, arg, thrown, ret, uploads, saved, calls>>

----------------------------------------------------------------------------
(* Bounds and input sets *)

\* The longest listener list the model lets the host and the callbacks build.
MaxListeners == 4

\* JavaScript's undefined.
Undefined == "undefined"

\* An identifier the host may pass that this.languages does not hold.
UnknownIds == {"cobol"}

\* The texts the user types and the host stores.
Texts == { <<>>, <<"x", "=", "1">> }

\* The texts the host stores before it saves and reloads the state.
XmlTexts == { <<>>, <<"x", "=", "1">>, <<"x", ">", "1">>, <<"a", "<", "1">>,
              <<"a", "&", "b">> }

\* The languages the host stores them for.
XmlLangs == {"python", "javascript"}

\* The text the user types while listeners are registered.
ListenerTexts == { <<"x", "=", "1">> }

\* The most <language> elements in a document the host loads.
MaxElems == 2

\* The value attributes of the elements of such a document.
DocIds == {"python", "cobol"}

\* The file names the host passes to saveCode.
FileNames == {"proj", "main"}

\* The functions the host registers: "plain" leaves the controller alone,
\* "adder" registers the function "late" when it is called.
HostListeners == {"plain", "adder"}

----------------------------------------------------------------------------
(* The constructor's data *)

languages ==
  << [value |-> "python", text |-> "Python", extension |-> ".py"],
     [value |-> "javascript", text |-> "JavaScript", extension |-> ".js"],
     [value |-> "arduino", text |-> "Arduino", extension |-> ".ino"],
     [value |-> "blockly", text |-> "Blockly", language |-> "python",
      extension |-> ".py", readOnly |-> TRUE] >>

ConfiguredIds == { languages[i].value : i \in DOMAIN languages }

Ids == ConfiguredIds \cup UnknownIds

\* {} : an object with no keys.
EmptyObject == [k \in {} |-> <<>>]

\* !x for an identifier or a function name: undefined and "" are falsy.
IsFalsy(x) == x = Undefined \/ x = ""

\* obj[key] = value
Put(obj, key, value) ==
  [k \in DOMAIN obj \cup {key} |-> IF k = key THEN value ELSE obj[k]]

\* obj[key] || "": an absent key and the empty text both give the empty text.
GetOrEmpty(obj, key) ==
  IF key \in DOMAIN obj /\ obj[key] # <<>> THEN obj[key] ELSE <<>>

\* this.languages.filter(...): the descriptors whose value is lang; [0] of it
\* is undefined when there is none.
getLanguageAttributes(lang) ==
  SelectSeq(languages, LAMBDA item : item.value = lang)

\* rec.field || other, for a descriptor that may lack the field
FieldOr(rec, field, other) ==
  IF field \in DOMAIN rec THEN rec[field] ELSE other

----------------------------------------------------------------------------
(* Strings as characters *)

\* The characters of the identifiers the model uses.
Chars ==
  [python |-> <<"p", "y", "t", "h", "o", "n">>,
   javascript |-> <<"j", "a", "v", "a", "s", "c", "r", "i", "p", "t">>,
   arduino |-> <<"a", "r", "d", "u", "i", "n", "o">>,
   blockly |-> <<"b", "l", "o", "c", "k", "l", "y">>,
   cobol |-> <<"c", "o", "b", "o", "l">>]

RECURSIVE ConcatFrom(_, _)
ConcatFrom(texts, i) ==
  IF i \notin DOMAIN texts THEN <<>> ELSE texts[i] \o ConcatFrom(texts, i + 1)

\* The characters of a sequence of texts, one after the other.
Concat(texts) == ConcatFrom(texts, 1)

RECURSIVE AsString(_)
\* The string made of the characters cs.
AsString(cs) == IF cs = <<>> THEN "" ELSE Head(cs) \o AsString(Tail(cs))

----------------------------------------------------------------------------
(* getStateAsXmlString *)

\* LanguageNode without the test for blockly.
LanguageNodeWithBlockly(descriptor, thisCode) ==
  Concat(<< <<"<", "l", "a", "n", "g", "u", "a", "g", "e", " ",
              "v", "a", "l", "u", "e", "=", "\"">>,
            Chars[descriptor.value],
            <<"\"", " ", ">">>,
            GetOrEmpty(thisCode, descriptor.value),
            <<"<", "/", "l", "a", "n", "g", "u", "a", "g", "e", ">">> >>)

\* '<language value="' + language.value + '" >' + code + '</language>',
\* or nothing for blockly (the callback returns undefined, which join("")
\* writes as the empty string).
LanguageNode(descriptor, thisCode) ==
  IF descriptor.value = "blockly"
  THEN <<>>
  ELSE Concat(<< <<"<", "l", "a", "n", "g", "u", "a", "g", "e", " ",
                   "v", "a", "l", "u", "e", "=", "\"">>,
                 Chars[descriptor.value],
                 <<"\"", " ", ">">>,
                 GetOrEmpty(thisCode, descriptor.value),
                 <<"<", "/", "l", "a", "n", "g", "u", "a", "g", "e", ">">> >>)

getStateAsXmlString(thisCode) ==
  Concat(<< <<"<", "e", "d", "i", "t", "o", "r", ">">>,
            Concat([i \in DOMAIN languages |-> LanguageNode(languages[i], thisCode)]),
            <<"<", "/", "e", "d", "i", "t", "o", "r", ">">> >>)

----------------------------------------------------------------------------
(* The browser's XML parser and serializer, as loadStateFromXmlString and    *)
(* loadStateFromXml use them: DOMParser.parseFromString(s, "text/xml"),      *)
(* getElementsByTagName, getAttribute and innerHTML.  The parser reads the   *)
(* part of XML the dialect and the buffer texts can form: elements with      *)
(* lower-case names, double-quoted attributes, character data and the five   *)
(* predefined entity references.  A document is the sequence of its          *)
(* elements in document order.                                               *)

NameChars ==
  {"a", "b", "c", "d", "e", "f", "g", "h", "i", "j", "k", "l", "m",
   "n", "o", "p", "q", "r", "s", "t", "u", "v", "w", "x", "y", "z"}

SpaceChars == {" "}

\* The characters the model's strings are made of, and those of them that
\* are character data wherever they stand.
AllChars == NameChars \cup {" ", "<", ">", "&", ";", "/", "=", "\"", "'", "1"}

CharDataChars == AllChars \ {"<", "&"}

Entities == [lt |-> "<", gt |-> ">", amp |-> "&", quot |-> "\"", apos |-> "'"]

\* The character at p, or "" past the end.
At(s, p) == IF p >= 1 /\ p <= Len(s) THEN s[p] ELSE ""

\* The least element of a non-empty set of indexes.
Least(indexes) == CHOOSE j \in indexes : \A k \in indexes : j <= k

\* The first index from p on whose character is not in set.
SkipWhile(s, p, set) ==
  LET others == { j \in p..Len(s) : s[j] \notin set }
  IN IF others = {} THEN Len(s) + 1 ELSE Least(others)

\* The first index from p on that holds c, or 0.
Find(s, p, c) ==
  LET hits == { j \in p..Len(s) : s[j] = c }
  IN IF hits = {} THEN 0 ELSE Least(hits)

\* Character data as the XML serializer writes it.
Escape(c) ==
  IF c = "&" THEN <<"&", "a", "m", "p", ";">>
  ELSE IF c = "<" THEN <<"&", "l", "t", ";">>
  ELSE IF c = ">" THEN <<"&", "g", "t", ";">>
  ELSE <<c>>

\* An element as the XML serializer writes it.
SerializeElement(e) ==
  Concat(<< <<"<">>, e.name,
            Concat([k \in DOMAIN e.attrs |->
                      Concat(<< <<" ">>, e.attrs[k].name, <<"=", "\"">>,
                                e.attrs[k].value, <<"\"">> >>)]),
            IF e.inner = <<>> THEN <<"/", ">">>
            ELSE Concat(<< <<">">>, e.inner, <<"<", "/">>, e.name, <<">">> >>) >>)

RECURSIVE ParseAttrs(_, _, _)
\* The attributes and the end of a start tag, read from p on.
ParseAttrs(s, p, attrs) ==
  LET q == SkipWhile(s, p, SpaceChars)
      bad == [ok |-> FALSE, attrs |-> attrs, next |-> q, empty |-> FALSE]
  IN IF At(s, q) = ">"
     THEN [ok |-> TRUE, attrs |-> attrs, next |-> q + 1, empty |-> FALSE]
     ELSE IF At(s, q) = "/" /\ At(s, q + 1) = ">"
     THEN [ok |-> TRUE, attrs |-> attrs, next |-> q + 2, empty |-> TRUE]
     ELSE IF q > p /\ At(s, q) \in NameChars
     THEN LET e == SkipWhile(s, q, NameChars)
              close == IF At(s, e) = "=" /\ At(s, e + 1) = "\""
                       THEN Find(s, e + 2, "\"") ELSE 0
              value == SubSeq(s, e + 2, close - 1)
          IN IF close = 0 \/ \E k \in DOMAIN value : value[k] \in {"<", "&"}
             THEN bad
             ELSE ParseAttrs(s, close + 1,
                             Append(attrs, [name |-> SubSeq(s, q, e - 1),
                                            value |-> value]))
     ELSE bad

\* The elements after the innermost open element got the characters cs.
AddText(elems, stack, cs) ==
  LET top == stack[Len(stack)]
  IN [elems EXCEPT ![top].inner = @ \o Concat([k \in DOMAIN cs |-> Escape(cs[k])]),
                   ![top].text = @ \o cs]

\* The elements after the innermost open element was closed.
CloseElement(elems, stack) ==
  LET top == stack[Len(stack)]
  IN IF Len(stack) = 1 THEN elems
     ELSE [elems EXCEPT ![stack[Len(stack) - 1]].inner =
                              @ \o SerializeElement(elems[top])]

RECURSIVE Scan(_, _)
\* The parse of s from the parser state st on: st.i is the next index, st.stack
\* holds the open elements' indexes in st.elems.
Scan(s, st) ==
  LET i == st.i
      stack == st.stack
      elems == st.elems
      error == [ok |-> FALSE, elems |-> elems]
  IN IF i > Len(s)
     THEN [ok |-> stack = <<>> /\ elems # <<>>, elems |-> elems]
     ELSE IF s[i] = "<"
     THEN IF At(s, i + 1) = "/"
          THEN LET e == SkipWhile(s, i + 2, NameChars)
                   g == SkipWhile(s, e, SpaceChars)
               IN IF /\ stack # <<>>
                     /\ At(s, g) = ">"
                     /\ SubSeq(s, i + 2, e - 1) = elems[stack[Len(stack)]].name
                  THEN Scan(s, [i |-> g + 1,
                                stack |-> SubSeq(stack, 1, Len(stack) - 1),
                                elems |-> CloseElement(elems, stack)])
                  ELSE error
          ELSE IF At(s, i + 1) \in NameChars /\ ~(stack = <<>> /\ elems # <<>>)
          THEN LET e == SkipWhile(s, i + 1, NameChars)
                   a == ParseAttrs(s, e, <<>>)
                   opened == Append(elems, [name |-> SubSeq(s, i + 1, e - 1),
                                            attrs |-> a.attrs,
                                            inner |-> <<>>,
                                            text |-> <<>>,
                                            depth |-> Len(stack) + 1])
                   inside == Append(stack, Len(opened))
               IN IF ~a.ok THEN error
                  ELSE IF a.empty
                  THEN Scan(s, [i |-> a.next, stack |-> stack,
                                elems |-> CloseElement(opened, inside)])
                  ELSE Scan(s, [i |-> a.next, stack |-> inside, elems |-> opened])
          ELSE error
     ELSE IF s[i] = "&"
     THEN LET k == Find(s, i + 1, ";")
              ref == IF k = 0 THEN "" ELSE AsString(SubSeq(s, i + 1, k - 1))
          IN IF stack # <<>> /\ ref \in DOMAIN Entities
             THEN Scan(s, [i |-> k + 1, stack |-> stack,
                           elems |-> AddText(elems, stack, <<Entities[ref]>>)])
             ELSE error
     ELSE LET j == SkipWhile(s, i, CharDataChars)
              run == SubSeq(s, i, j - 1)
          IN IF stack = <<>>
             THEN IF \A k \in DOMAIN run : run[k] \in SpaceChars
                  THEN Scan(s, [i |-> j, stack |-> stack, elems |-> elems])
                  ELSE error
             ELSE Scan(s, [i |-> j, stack |-> stack,
                           elems |-> AddText(elems, stack, run)])

\* The parse of the whole of s.
ParseDocument(s) == Scan(s, [i |-> 1, stack |-> <<>>, elems |-> <<>>])

\* The documents new DOMParser().parseFromString(s, "text/xml") may give.
\* A well-formed s has one.  For an s that is not, the browser decides:
\* a document that holds only a parsererror element, or the elements read up
\* to the error followed by a parsererror element.
parseFromString(s) ==
  LET r == ParseDocument(s)
  IN IF r.ok THEN {r.elems} ELSE {<<>>, r.elems}

getElementsByTagName(xml, name) == SelectSeq(xml, LAMBDA e : e.name = name)

\* element.getAttribute(name); null, used as a key, is the key "null".
getAttribute(element, name) ==
  LET found == SelectSeq(element.attrs, LAMBDA a : a.name = name)
  IN IF found = <<>> THEN "null" ELSE AsString(found[1].value)

innerHTML(element) == element.inner

\* A <language value="id">text</language> element of a document the host built.
LanguageElement(id, text) ==
  [name |-> <<"l", "a", "n", "g", "u", "a", "g", "e">>,
   attrs |-> << [name |-> <<"v", "a", "l", "u", "e">>, value |-> Chars[id]] >>,
   inner |-> Concat([k \in DOMAIN text |-> Escape(text[k])]),
   text |-> text,
   depth |-> 2]

\* The documents the host loads: up to MaxElems language elements, in any
\* order, no two with the same value attribute.
Docs ==
  UNION { { [i \in 1..n |-> LanguageElement(d[i][1], d[i][2])] :
              d \in { e \in [1..n -> DocIds \X Texts] :
                        \A i, j \in 1..n : i # j => e[i][1] # e[j][1] } } :
          n \in 0..MaxElems }

\* A state written by another writer: no space before the ">".
ForeignState ==
  Concat(<< <<"<", "e", "d", "i", "t", "o", "r", ">">>,
            SerializeElement(LanguageElement("python", <<"x", "=", "1">>)),
            <<"<", "/", "e", "d", "i", "t", "o", "r", ">">> >>)

RECURSIVE LoadLoop(_, _, _)
\* this.code after the loop of loadStateFromXml from index i on.
LoadLoop(thisCode, elements, i) ==
  IF i > Len(elements) THEN thisCode
  ELSE LoadLoop(Put(thisCode,
                    getAttribute(elements[i], <<"v", "a", "l", "u", "e">>),
                    innerHTML(elements[i])),
                elements, i + 1)

loadStateFromXml(thisCode, xml) ==
  LoadLoop(thisCode,
           getElementsByTagName(xml, <<"l", "a", "n", "g", "u", "a", "g", "e">>), 1)

----------------------------------------------------------------------------
(* Change listeners *)

addChangeListener(func, ls) == Append(ls, func)

\* What calling the listener func does to the listener list.
CallListener(func, ls) ==
  IF func = "adder" THEN addChangeListener("late", ls) ELSE ls

RECURSIVE FireLoop(_, _, _, _, _)
FireLoop(currentListeners, i, event, ls, done) ==
  IF i > Len(currentListeners) \/ IsFalsy(currentListeners[i])
  THEN [listeners |-> ls, calls |-> done]
  ELSE FireLoop(currentListeners, i + 1, event,
                CallListener(currentListeners[i], ls),
                Append(done, [func |-> currentListeners[i], event |-> event]))

RECURSIVE FireLoopLive(_, _, _, _)
FireLoopLive(i, event, ls, done) ==
  IF i > Len(ls) \/ IsFalsy(ls[i])
  THEN [listeners |-> ls, calls |-> done]
  ELSE FireLoopLive(i + 1, event, CallListener(ls[i], ls),
                    Append(done, [func |-> ls[i], event |-> event]))

\* fireChangeListener without the slice(): the loop walks this.listeners_ itself.
fireChangeListenerLive(event, ls) == FireLoopLive(1, event, ls, <<>>)

\* The listener list and the invocations after firing event.
fireChangeListener(event, ls) == FireLoop(ls, 1, event, ls, <<>>)

----------------------------------------------------------------------------
(* refreshEditor *)

\* refreshEditor with an edit callback that writes to this.language instead of
\* the language it rendered.
refreshEditorCapturingActive(lang, thisLanguage, thisCode, fl) ==
  LET l0 == IF IsFalsy(lang)
            THEN (IF IsFalsy(thisLanguage) THEN "python" ELSE thisLanguage)
            ELSE lang
      found == getLanguageAttributes(l0)
  IN IF found = <<>>
     THEN [thrown |-> TRUE, flask |-> fl]
     ELSE [thrown |-> FALSE,
           flask |-> [language |-> FieldOr(found[1], "language", l0),
                      text |-> GetOrEmpty(thisCode, l0),
                      onUpdate |-> thisLanguage,
                      readOnly |-> FieldOr(found[1], "readOnly", FALSE)]]

\* The engine after refreshEditor(lang), and whether the call threw.
\* lang is Undefined for a call without an argument.
refreshEditor(lang, thisLanguage, thisCode, fl) ==
  LET l0 == IF IsFalsy(lang)
            THEN (IF IsFalsy(thisLanguage) THEN "python" ELSE thisLanguage)
            ELSE lang
      found == getLanguageAttributes(l0)
  IN IF found = <<>>
     THEN \* languageAttributes is undefined: reading .language throws
          [thrown |-> TRUE, flask |-> fl]
     ELSE [thrown |-> FALSE,
           flask |-> [language |-> FieldOr(found[1], "language", l0),
                      text |-> GetOrEmpty(thisCode, l0),
                      onUpdate |-> l0,
                      readOnly |-> FieldOr(found[1], "readOnly", FALSE)]]

Quiet == /\ uploads' = <<>>
         /\ saved' = <<>>
         /\ calls' = <<>>

Init ==
  /\ language = "python"
  /\ code = EmptyObject
  /\ flask = refreshEditor("python", "python", EmptyObject,
                           [language |-> Undefined, text |-> <<>>,
                            onUpdate |-> Undefined, readOnly |-> FALSE]).flask
  /\ listeners_ = <<>>
  /\ pushButtonDisabled = FALSE
  /\ op = "construct"
  /\ arg = Undefined
  /\ thrown = FALSE
  /\ ret = Undefined
  /\ uploads = <<>>
  /\ saved = <<>>
  /\ calls = <<>>

----------------------------------------------------------------------------
(* Operations *)

GetSelectedLanguage ==
  /\ op' = "getSelectedLanguage"
  /\ arg' = Undefined
  /\ thrown' = FALSE
  /\ ret' = language
  /\ Quiet
  /\ UNCHANGED <<language, code, flask, listeners_, pushButtonDisabled>>

\* Whether the push button is disabled after updatePushButtonStatus(lang).
updatePushButtonStatus(lang) == lang # "python"

\* changeLanguage without the assignment to this.language.
ChangeLanguageKeepingLanguage(lang) ==
  LET r == refreshEditor(lang, language, code, flask)
      f == fireChangeListener("LANGUAGE_SELECTED", listeners_)
  IN /\ flask' = r.flask
     /\ thrown' = r.thrown
     /\ IF r.thrown
        THEN /\ calls' = <<>>
             /\ UNCHANGED <<listeners_, pushButtonDisabled>>
        ELSE /\ Len(f.listeners) <= MaxListeners
             /\ pushButtonDisabled' = updatePushButtonStatus(lang)
             /\ calls' = f.calls
             /\ listeners_' = f.listeners
     /\ op' = "changeLanguage"
     /\ arg' = lang
     /\ ret' = Undefined
     /\ uploads' = <<>>
     /\ saved' = <<>>
     /\ UNCHANGED <<language, code>>

ChangeLanguage(lang) ==
  LET r == refreshEditor(lang, lang, code, flask)
      f == fireChangeListener("LANGUAGE_SELECTED", listeners_)
  IN /\ language' = lang
     /\ flask' = r.flask
     /\ thrown' = r.thrown
     /\ IF r.thrown
        THEN /\ calls' = <<>>
             /\ UNCHANGED <<listeners_, pushButtonDisabled>>
        ELSE /\ Len(f.listeners) <= MaxListeners
             /\ pushButtonDisabled' = updatePushButtonStatus(lang)
             /\ calls' = f.calls
             /\ listeners_' = f.listeners
     /\ op' = "changeLanguage"
     /\ arg' = lang
     /\ ret' = Undefined
     /\ uploads' = <<>>
     /\ saved' = <<>>
     /\ UNCHANGED code

RefreshEditor(lang) ==
  LET r == refreshEditor(lang, language, code, flask)
  IN /\ flask' = r.flask
     /\ thrown' = r.thrown
     /\ op' = "refreshEditor"
     /\ arg' = lang
     /\ ret' = Undefined
     /\ Quiet
     /\ UNCHANGED <<language, code, listeners_, pushButtonDisabled>>

AddCodeToEditor(text, lang) ==
  /\ code' = Put(code, lang, text)
  /\ op' = "addCodeToEditor"
  /\ arg' = Undefined
  /\ thrown' = FALSE
  /\ ret' = Undefined
  /\ Quiet
  /\ UNCHANGED <<language, flask, listeners_, pushButtonDisabled>>

\* The user types: the textarea holds text and the engine calls the callback
\* the last refreshEditor gave it.
Edit(text) ==
  LET f == fireChangeListener("CODE_UPDATED", listeners_)
  IN /\ ~flask.readOnly
     /\ Len(f.listeners) <= MaxListeners
     /\ flask' = [flask EXCEPT !.text = text]
     /\ code' = Put(code, flask.onUpdate, text)
     /\ calls' = f.calls
     /\ listeners_' = f.listeners
     /\ op' = "edit"
     /\ arg' = Undefined
     /\ thrown' = FALSE
     /\ ret' = Undefined
     /\ uploads' = <<>>
     /\ saved' = <<>>
     /\ UNCHANGED <<language, pushButtonDisabled>>

\* pushCode without the test of this.language.
PushCodeAnyLanguage(kalebrConsole) ==
  /\ uploads' = IF kalebrConsole THEN <<flask.text>> ELSE <<>>
  /\ op' = "pushCode"
  /\ arg' = kalebrConsole
  /\ thrown' = FALSE
  /\ ret' = Undefined
  /\ saved' = <<>>
  /\ calls' = <<>>
  /\ UNCHANGED <<language, code, flask, listeners_, pushButtonDisabled>>

\* kalebrConsole: whether the host exposes Kalebr.Console at the call.
PushCode(kalebrConsole) ==
  /\ uploads' = IF language # "python" THEN <<>>
                ELSE IF kalebrConsole THEN <<flask.text>> ELSE <<>>
  /\ op' = "pushCode"
  /\ arg' = kalebrConsole
  /\ thrown' = FALSE
  /\ ret' = Undefined
  /\ saved' = <<>>
  /\ calls' = <<>>
  /\ UNCHANGED <<language, code, flask, listeners_, pushButtonDisabled>>

\* clear without the reset of this.code.
ClearKeepingCode ==
  LET r == refreshEditor(Undefined, language, code, flask)
  IN /\ flask' = r.flask
     /\ thrown' = r.thrown
     /\ op' = "clear"
     /\ arg' = Undefined
     /\ ret' = Undefined
     /\ Quiet
     /\ UNCHANGED <<language, code, listeners_, pushButtonDisabled>>

Clear ==
  LET r == refreshEditor(Undefined, language, EmptyObject, flask)
  IN /\ code' = EmptyObject
     /\ flask' = r.flask
     /\ thrown' = r.thrown
     /\ op' = "clear"
     /\ arg' = Undefined
     /\ ret' = Undefined
     /\ Quiet
     /\ UNCHANGED <<language, listeners_, pushButtonDisabled>>

GetStateAsXmlString ==
  /\ op' = "getStateAsXmlString"
  /\ arg' = Undefined
  /\ thrown' = FALSE
  /\ ret' = getStateAsXmlString(code)
  /\ Quiet
  /\ UNCHANGED <<language, code, flask, listeners_, pushButtonDisabled>>

\* this.languages[key]: an array read by a string key finds an element only
\* for the index keys "0", "1", ...; one element, or none for undefined.
ArrayGet(arr, key) ==
  LET IndexKeys == <<"0", "1", "2", "3">>
  IN SelectSeq([i \in DOMAIN arr |-> [key |-> IndexKeys[i], item |-> arr[i]]],
               LAMBDA e : e.key = key)

SaveCode(fileName) ==
  LET found == ArrayGet(languages, language)
  IN /\ IF found = <<>>
        THEN \* this.languages[this.language] is undefined: .extension throws
             /\ thrown' = TRUE
             /\ saved' = <<>>
        ELSE \* extension[this.language] is undefined
             /\ thrown' = FALSE
             /\ saved' = <<fileName \o Undefined>>
     /\ op' = "saveCode"
     /\ arg' = fileName
     /\ ret' = Undefined
     /\ uploads' = <<>>
     /\ calls' = <<>>
     /\ UNCHANGED <<language, code, flask, listeners_, pushButtonDisabled>>

LoadStateFromXml(xml) ==
  LET loaded == loadStateFromXml(code, xml)
      r == refreshEditor(Undefined, language, loaded, flask)
  IN /\ code' = loaded
     /\ flask' = r.flask
     /\ thrown' = r.thrown
     /\ op' = "loadStateFromXml"
     /\ arg' = Undefined
     /\ ret' = Undefined
     /\ Quiet
     /\ UNCHANGED <<language, listeners_, pushButtonDisabled>>

LoadStateFromXmlString(xmlString) ==
  \E xmlDoc \in parseFromString(xmlString) :
    LET loaded == loadStateFromXml(code, xmlDoc)
        r == refreshEditor(Undefined, language, loaded, flask)
    IN /\ code' = loaded
       /\ flask' = r.flask
       /\ thrown' = r.thrown
       /\ op' = "loadStateFromXmlString"
       /\ arg' = xmlString
       /\ ret' = Undefined
       /\ Quiet
       /\ UNCHANGED <<language, listeners_, pushButtonDisabled>>

AddChangeListener(func) ==
  /\ Len(listeners_) < MaxListeners
  /\ listeners_' = addChangeListener(func, listeners_)
  /\ op' = "addChangeListener"
  /\ arg' = Undefined
  /\ thrown' = FALSE
  /\ ret' = func
  /\ Quiet
  /\ UNCHANGED <<language, code, flask, pushButtonDisabled>>

Next ==
  \/ GetSelectedLanguage
  \/ \E lang \in Ids : ChangeLanguage(lang)
  \/ \E lang \in Ids \cup {Undefined} : RefreshEditor(lang)
  \/ \E text \in Texts, lang \in Ids : AddCodeToEditor(text, lang)
  \/ \E text \in Texts : Edit(text)
  \/ \E kalebrConsole \in BOOLEAN : PushCode(kalebrConsole)
  \/ \E fileName \in FileNames : SaveCode(fileName)
  \/ GetStateAsXmlString
  \/ \E xml \in Docs : LoadStateFromXml(xml)
  \/ Clear

\* The controller under every operation but listener registration.
Spec == Init /\ [][Next]_vars

NextXml ==
  \/ \E text \in XmlTexts, lang \in XmlLangs : AddCodeToEditor(text, lang)
  \/ GetStateAsXmlString
  \/ LoadStateFromXmlString(getStateAsXmlString(code))
  \/ LoadStateFromXmlString(ForeignState)
  \/ Clear

\* The host stores texts, saves the state and loads it back.
SpecXml == Init /\ [][NextXml]_vars

NextListeners ==
  \/ \E func \in HostListeners : AddChangeListener(func)
  \/ \E lang \in Ids : ChangeLanguage(lang)
  \/ \E text \in ListenerTexts : Edit(text)

\* The host registers listeners while the user switches language and types.
SpecListeners == Init /\ [][NextListeners]_vars

----------------------------------------------------------------------------
(* Properties *)

\* The descriptor of a configured language.
Descriptor(lang) ==
  CHOOSE d \in { languages[i] : i \in DOMAIN languages } : d.value = lang

\* The keys a buffer may stand under.
BufferKeys == Ids \cup DOMAIN code \cup DOMAIN code'

\* The buffers other than key's are what they were (an absent buffer is an
\* empty one).
OthersUnchanged(key) ==
  \A k \in BufferKeys \ {key} : GetOrEmpty(code', k) = GetOrEmpty(code, k)

\* An edit stored the typed text under key and touched no other buffer, and
\* the same text typed again changes no buffer.
EditStoredUnder(key) ==
  /\ op' = "edit" =>
       /\ GetOrEmpty(code', key) = flask'.text
       /\ OthersUnchanged(key)
  /\ (op = "edit" /\ op' = "edit" /\ flask'.text = flask.text) =>
       \A k \in BufferKeys : GetOrEmpty(code', k) = GetOrEmpty(code, k)

\* C1, as claimed: after an edit made while a configured language is active,
\* the buffer of the active language holds the typed text, no other buffer has
\* changed, and typing the same text again changes nothing, whatever
\* operations came before.
C1_EditWritesActiveBuffer ==
  [][ (language \in ConfiguredIds) => EditStoredUnder(language) ]_vars

\* C1, amended: after an edit the buffer of the language the engine was last
\* rendered for (the language it highlights) holds the typed text, no other
\* buffer has changed, and typing the same text again changes nothing.
C1_EditWritesRenderedBuffer == [][EditStoredUnder(flask.language)]_vars

\* An edit has been made while the engine renders a language that is not the
\* active one.
C1_Witness ==
  /\ op = "edit"
  /\ flask.language # language
  /\ language \in ConfiguredIds
  /\ flask.text # <<>>
  /\ GetOrEmpty(code, flask.language) = flask.text
  /\ GetOrEmpty(code, language) # flask.text

C4_SaveRequestsNameWithExtension ==
  (op = "saveCode" /\ language \in ConfiguredIds) =>
    /\ ~thrown
    /\ saved = << arg \o Descriptor(language).extension >>

\* C5: the active language is always a configured one, and changeLanguage or
\* refreshEditor with an identifier that is not configured throws and changes
\* neither the active language, nor the buffers, nor the engine.
C5_UnknownLanguageRejected ==
  [][ /\ language' \in ConfiguredIds
      /\ (op' \in {"changeLanguage", "refreshEditor"} /\ arg' \in UnknownIds) =>
           /\ thrown'
           /\ UNCHANGED <<language, code, flask>> ]_vars

\* C6: getSelectedLanguage right after changeLanguage(L), L configured,
\* returns L.
C6_ChangeThenGetSelected ==
  [][ (op = "changeLanguage" /\ arg \in ConfiguredIds
       /\ op' = "getSelectedLanguage") => ret' = arg ]_vars

\* getSelectedLanguage has returned a language only changeLanguage can select.
C6_Witness ==
  /\ op = "getSelectedLanguage"
  /\ ret = "arduino"

\* What C7 says of a load of the document xml.
LoadAsClaimed(xml) ==
  LET named == { getAttribute(xml[i], <<"v", "a", "l", "u", "e">>) : i \in DOMAIN xml }
  IN /\ \A i \in DOMAIN xml :
          LET key == getAttribute(xml[i], <<"v", "a", "l", "u", "e">>)
          IN key \in DOMAIN code' /\ code'[key] = innerHTML(xml[i])
     /\ DOMAIN code' = DOMAIN code \cup named
     /\ \A k \in DOMAIN code \ named : code'[k] = code[k]
     /\ language' = language
     /\ ~thrown'
     /\ language \in ConfiguredIds
     /\ flask'.text = GetOrEmpty(code', language)
     /\ flask'.language = FieldOr(Descriptor(language), "language", language)
     /\ (op = "construct" /\ xml = << LanguageElement("python", <<"x", "=", "1">>) >>) =>
          /\ GetOrEmpty(code', "python") = <<"x", "=", "1">>
          /\ GetOrEmpty(code', "javascript") = <<>>

\* C7: loadStateFromXml stores every language element's body under its value
\* attribute, leaves the other buffers and the active language as they were,
\* and re-renders the active language from its buffer.
C7_LoadStoresAndRenders ==
  [][ \A xml \in Docs : LoadStateFromXml(xml) => LoadAsClaimed(xml) ]_vars

\* s is an editor element whose only children are empty language elements, one
\* for each configured language but blockly.
EmptyEditorDocument(s) ==
  LET r == ParseDocument(s)
      kids == SubSeq(r.elems, 2, Len(r.elems))
  IN /\ r.ok
     /\ r.elems[1].name = <<"e", "d", "i", "t", "o", "r">>
     /\ r.elems[1].text = <<>>
     /\ \A i \in DOMAIN kids :
          /\ kids[i].name = <<"l", "a", "n", "g", "u", "a", "g", "e">>
          /\ kids[i].depth = 2
          /\ kids[i].inner = <<>>
     /\ { getAttribute(kids[i], <<"v", "a", "l", "u", "e">>) : i \in DOMAIN kids }
          = ConfiguredIds \ {"blockly"}
     /\ Len(kids) = Cardinality(ConfiguredIds \ {"blockly"})

\* C8: getStateAsXmlString right after clear returns an editor element that
\* holds one empty language element for each configured language but blockly,
\* and nothing else.
C8_ClearThenStateIsEmpty ==
  [][ (op = "clear" /\ op' = "getStateAsXmlString") =>
        EmptyEditorDocument(ret') ]_vars

\* getStateAsXmlString has returned the empty document although the textarea
\* still shows a text that was stored before the clear.
C8_Witness ==
  /\ op = "getStateAsXmlString"
  /\ code = EmptyObject
  /\ flask.text # <<>>
  /\ EmptyEditorDocument(ret)

\* <language value="ID"> or <language value="ID" >, CODE, </language>
FormatNode(id, spaceBeforeEnd) ==
  <<"<", "l", "a", "n", "g", "u", "a", "g", "e", " ",
    "v", "a", "l", "u", "e", "=", "\"">>
  \o Chars[id] \o <<"\"">> \o (IF spaceBeforeEnd THEN <<" ">> ELSE <<>>) \o <<">">>
  \o (IF id \in DOMAIN code THEN code[id] ELSE <<>>)
  \o <<"<", "/", "l", "a", "n", "g", "u", "a", "g", "e", ">">>

\* The persisted state format for the buffers of the state.
Format(spaceBeforeEnd) ==
  <<"<", "e", "d", "i", "t", "o", "r", ">">>
  \o FormatNode("python", spaceBeforeEnd)
  \o FormatNode("javascript", spaceBeforeEnd)
  \o FormatNode("arduino", spaceBeforeEnd)
  \o <<"<", "/", "e", "d", "i", "t", "o", "r", ">">>

\* C9, as claimed: getStateAsXmlString returns <editor>, then
\* <language value="ID">CODE</language> for python, javascript and arduino in
\* this order, then </editor>, and no other character.
C9_StateStringAsClaimed ==
  op = "getStateAsXmlString" => ret = Format(FALSE)

\* C9, amended: the same with a space between the closing quote of the value
\* attribute and the ">" of each <language> tag: <language value="ID" >.
C9_StateStringWithSpace ==
  op = "getStateAsXmlString" => ret = Format(TRUE)

\* getStateAsXmlString has returned while the blockly and the python buffers
\* hold a text.
C9_Witness ==
  /\ op = "getStateAsXmlString"
  /\ GetOrEmpty(code, "blockly") # <<>>
  /\ GetOrEmpty(code, "python") # <<>>
  /\ GetOrEmpty(code, "arduino") = <<>>

\* C2: loading the string getStateAsXmlString returns leaves the buffer of
\* every configured language but blockly as it was.
C2_RoundTrip ==
  [][ (op' = "loadStateFromXmlString" /\ arg' = getStateAsXmlString(code)) =>
        \A id \in ConfiguredIds \ {"blockly"} :
          GetOrEmpty(code', id) = GetOrEmpty(code, id) ]_vars

\* The event an operation fires.
EventOf(name) ==
  IF name = "changeLanguage" THEN "LANGUAGE_SELECTED" ELSE "CODE_UPDATED"

\* The first is an initial part of the second.
IsPrefix(a, b) == Len(a) <= Len(b) /\ SubSeq(b, 1, Len(a)) = a

====
